---- MODULE Spec2Model ----
(***************************************************************************)
(* VL53L1X distance sensor poller (src/vl53l1x_wiringpi.c).                *)
(*                                                                         *)
(* The program is one thread: main() opens the bus, runs initSensor        *)
(* (identify, soft reset, firmware-ready poll, configuration), starts      *)
(* ranging and then polls getDistance forever.  The model follows main's   *)
(* control flow with a program counter; every register access is expanded  *)
(* by the register access shim (writeReg8, writeReg16, readReg8,           *)
(* readReg16) into the wiringPi bus calls it issues, which are appended    *)
(* to `log`.  Values read from the bus are chosen by the environment.      *)
(***************************************************************************)
EXTENDS Integers, Sequences, FiniteSets, TLC

(***************************************************************************)
(* Register addresses and literals of the source (decimal; hex in comment) *)
(***************************************************************************)
\* 0x29
VL53L1X_ADDRESS == 41
\* 0x0000
SOFT_RESET == 0
\* 0x0010
FIRMWARE_SYSTEM_STATUS == 16
\* 0x010F
IDENTIFICATION_MODEL_ID == 271
\* 0x0086
SYSTEM_INTERRUPT_CLEAR == 134
\* 0x0087
SYSTEM_MODE_START == 135
\* 0x0031
GPIO_TIO_HV_STATUS == 49
\* 0x0089
RESULT_RANGE_STATUS == 137
\* 0x0096
RESULT_DISTANCE == 150
\* 0x0060
RANGE_CONFIG_VCSEL_PERIOD_A == 96
\* 0x0063
RANGE_CONFIG_VCSEL_PERIOD_B == 99
\* 0x005E
RANGE_CONFIG_TIMEOUT_MACROP_A == 94
\* 0x0061
RANGE_CONFIG_TIMEOUT_MACROP_B == 97
\* 0x0069
RANGE_CONFIG_VALID_PHASE_HIGH == 105
\* 0x0046
SYSTEM_INTERRUPT_CONFIG_GPIO == 70
\* 0xEACC, the expected model id
ExpectedModelId == 60108
\* the firmware poll makes at most this many attempts: for (i = 0; i < 100; i++)
FwAttempts == 100
\* upper bound (exclusive) of an accepted distance
DistanceLimit == 8000
\* the warning line is printed when errors % 20 == 0
WarnEvery == 20
\* bar cap of printDistance
MaxBars == 40
\* initial value of min_dist
MinDistInit == 9999
\* start command written to SYSTEM_MODE_START (0x40)
StartCommand == 64
\* stop value written to SYSTEM_MODE_START
StopCommand == 0

\* the six registers the source lists as configuration registers
ConfigRegs ==
  { RANGE_CONFIG_VCSEL_PERIOD_A, RANGE_CONFIG_VCSEL_PERIOD_B,
    RANGE_CONFIG_TIMEOUT_MACROP_A, RANGE_CONFIG_TIMEOUT_MACROP_B,
    RANGE_CONFIG_VALID_PHASE_HIGH, SYSTEM_INTERRUPT_CONFIG_GPIO }

(***************************************************************************)
(* Bounds of the model and the values the environment may return.          *)
(***************************************************************************)
\* polling stops being explored once this many samples were accepted
MaxCount == 4
\* ... or this many polls were counted as errors
MaxErrors == 2
\* the same caps for the long-run specification (few inputs, many polls)
LongCount == 2
LongErrors == 45

\* return values of wiringPiSetup()
SetupResults == { -1, 0 }
\* return values of wiringPiI2CSetup(): -1 or a descriptor
OpenResults == { -1, 3 }
\* raw (high, low) results of the two wiringPiI2CRead calls of the id read;
\* -1 is the library's failure value
ModelIdReads ==
  { <<234, 204>>, <<204, 234>>, <<234, 205>>, <<0, 0>>, <<255, 255>>,
    <<-1, -1>>, <<234, 0>> }
\* raw results of the firmware status read (bit 0 unset: 0x00, 0xFE)
FwStatusReads == { 0, 254, 1, 255, -1 }
\* raw results of the GPIO status read
GpioReads == { 0, 1, 2 }
\* raw results of the range status read: 0x00, 0x0F, 0x10, 0x80
StatusReads == { 0, 15, 16, 128 }
\* raw (high, low) results of the distance read:
\* 0, 50, 250, 400, 500, 7999, 8000, 9000
DistanceReads ==
  { <<0, 0>>, <<0, 50>>, <<0, 250>>, <<1, 144>>, <<1, 244>>,
    <<31, 63>>, <<31, 64>>, <<35, 40>> }
\* inputs of the long-run specification: ready or not, distance 0 or 50
LongGpioReads == { 0, 1 }
LongStatusReads == { 0 }
LongDistanceReads == { <<0, 0>>, <<0, 50>> }
\* cap and inputs of the long run of accepted samples: always ready, 7999
SumCount == 268470
SumGpioReads == { 1 }
SumStatusReads == { 0 }
SumDistanceReads == { <<31, 63>> }
\* caps and inputs of the specification that exercises printDistance
PrintCount == 2
PrintErrors == 1
PrintGpioReads == { 0, 1 }
PrintStatusReads == { 0, 16 }
\* 1, 50, 99, 100, 250, 299, 300, 400, 500, 3999, 4000, 4099, 4100, 7999
PrintDistanceReads ==
  { <<0, 1>>, <<0, 50>>, <<0, 99>>, <<0, 100>>, <<0, 250>>, <<1, 43>>,
    <<1, 44>>, <<1, 144>>, <<1, 244>>, <<15, 159>>, <<15, 160>>, <<16, 3>>,
    <<16, 4>>, <<31, 63>> }
\* registers and values the shim round trip is tried on
ShimRegs == { SOFT_RESET, RANGE_CONFIG_TIMEOUT_MACROP_A,
              RANGE_CONFIG_TIMEOUT_MACROP_B, RESULT_DISTANCE,
              IDENTIFICATION_MODEL_ID, 65534 }
ShimVals == { 0, 1, 214, 255, 256, 4660, 13330, 54784, 60108, 52458,
              65280, 65535 }
\* filler byte of an unwritten cell of the mock register file
MockFill == 170

VARIABLES
  pc,            \* position of main
  exitCode,      \* value returned by main, -1 while running
  setupRet,      \* result of wiringPiSetup()
  fd,            \* the global device handle
  initRet,       \* value returned by initSensor
  model_id,      \* initSensor's local
  i,             \* initSensor's loop counter
  fwReadySeen,   \* history: the poll loop saw bit 0 of the firmware status
  log,           \* bus calls issued since startup / in the current read cycle
  gpio_status,   \* getDistance's locals
  range_status,
  gd_distance,
  distance,      \* main's locals
  count,
  errors,
  sum,
  min_dist,
  max_dist,
  out,           \* the line printed by the last loop iteration
  polls,         \* history: completed loop iterations
  accepts,       \* history: getDistance calls that returned a sample
  samples,       \* history: how often getDistance returned each sample value
  run,           \* history: consecutive polls without a sample
  closed,        \* the device handle was closed
  shim_pc,       \* shim round trip on the mock register file
  shim_reg,
  shim_val,
  shim_out,
  mem,
  ptr

mainVars ==
  << pc, exitCode, setupRet, fd, initRet, model_id, i, fwReadySeen,
     gpio_status, range_status, gd_distance, distance, count, errors, sum,
     min_dist, max_dist, out, polls, accepts, samples, run, closed >>
shimVars == << shim_pc, shim_reg, shim_val, shim_out, mem, ptr >>
vars == << mainVars, log, shimVars >>

(***************************************************************************)
(* Bus collaborator calls, as recorded in the log.                         *)
(***************************************************************************)
\* wiringPiI2CWriteReg8(fd, a, d)
BusWriteReg8(a, d) == [op |-> "WriteReg8", a |-> a, d |-> d]
\* wiringPiI2CWrite(fd, d)
BusWrite(d) == [op |-> "Write", a |-> -1, d |-> d % 256]
\* wiringPiI2CRead(fd)
BusRead == [op |-> "Read", a |-> -1, d |-> -1]

(***************************************************************************)
(* Register access shim.                                                   *)
(***************************************************************************)
\* the address phase every shim function starts with:
\* wiringPiI2CWriteReg8(fd, (reg >> 8) & 0xFF, reg & 0xFF)
AddrPhase(reg) == BusWriteReg8((reg \div 256) % 256, reg % 256)

writeReg8(reg, value) == << AddrPhase(reg), BusWrite(value) >>

writeReg16Swapped(reg, value) ==
  << AddrPhase(reg), BusWrite(value % 256), BusWrite((value \div 256) % 256) >>

writeReg16(reg, value) ==
  << AddrPhase(reg), BusWrite((value \div 256) % 256), BusWrite(value % 256) >>

\* bus calls of readReg8 and the value it returns for the raw read result r
readReg8Calls(reg) == << AddrPhase(reg), BusRead >>
readReg8Value(r) == r % 256

\* bus calls of readReg16 and the value it returns for the raw results
readReg16Calls(reg) == << AddrPhase(reg), BusRead, BusRead >>

readReg16Value(rhigh, rlow) ==
  (((rhigh % 256) * 256) + (rlow % 256)) % 65536

(***************************************************************************)
(* Reading the log.                                                        *)
(***************************************************************************)
\* positions at which register reg is addressed
Accesses(lg, reg) == { p \in 1..Len(lg) : lg[p] = AddrPhase(reg) }
\* positions at which the 8-bit value val is written to reg
Writes8(lg, reg, val) ==
  { p \in Accesses(lg, reg) : p + 1 <= Len(lg) /\ lg[p + 1] = BusWrite(val) }
\* positions at which any value is written to reg
WritesTo(lg, reg) ==
  { p \in Accesses(lg, reg) : p + 1 <= Len(lg) /\ lg[p + 1].op = "Write" }
\* positions at which reg is read
ReadsOf(lg, reg) ==
  { p \in Accesses(lg, reg) : p + 1 <= Len(lg) /\ lg[p + 1].op = "Read" }

(***************************************************************************)
(* Initial state: main's locals as initialised at lines 207-212.           *)
(***************************************************************************)
NoLine == [kind |-> "none", n |-> 0, mm |-> 0, bars |-> 0, tag |-> "none"]

MockAddrs == UNION { { r, (r + 1) % 65536 } : r \in ShimRegs }

InitMain ==
  /\ pc = "setup"
  /\ exitCode = -1
  /\ setupRet = 0
  /\ fd = 0
  /\ initRet = 0
  /\ model_id = 0
  /\ i = 0
  /\ fwReadySeen = FALSE
  /\ gpio_status = 0
  /\ range_status = 0
  /\ gd_distance = 0
  /\ distance = 0
  /\ count = 0
  /\ errors = 0
  /\ sum = 0
  /\ min_dist = MinDistInit
  /\ max_dist = 0
  /\ out = NoLine
  /\ polls = 0
  /\ accepts = 0
  /\ samples = [v \in {} |-> 0]
  /\ run = 0
  /\ closed = FALSE
  /\ log = << >>

InitShimIdle ==
  /\ shim_pc = "idle"
  /\ shim_reg = 0
  /\ shim_val = 0
  /\ shim_out = 0
  /\ mem = [a \in MockAddrs |-> MockFill]
  /\ ptr = 0

Init == InitMain /\ InitShimIdle

(***************************************************************************)
(* main: bus setup and device open.                                        *)
(***************************************************************************)
\* return 1 from main
ExitWith(code) == pc' = "exit" /\ exitCode' = code

MainSetup ==
  /\ pc = "setup"
  /\ \E r \in SetupResults :
       /\ setupRet' = r
       /\ IF r = -1 THEN ExitWith(1) ELSE pc' = "open" /\ exitCode' = exitCode
  /\ UNCHANGED << fd, initRet, model_id, i, fwReadySeen, gpio_status,
                  range_status, gd_distance, distance, count, errors, sum,
                  min_dist, max_dist, out, polls, accepts, samples, run, closed, log,
                  shimVars >>

MainOpen ==
  /\ pc = "open"
  /\ \E r \in OpenResults :
       /\ fd' = r
       /\ IF r = -1 THEN ExitWith(1) ELSE pc' = "init_id" /\ exitCode' = exitCode
  /\ UNCHANGED << setupRet, initRet, model_id, i, fwReadySeen, gpio_status,
                  range_status, gd_distance, distance, count, errors, sum,
                  min_dist, max_dist, out, polls, accepts, samples, run, closed, log,
                  shimVars >>

(***************************************************************************)
(* initSensor, one action per step of the sequence.                        *)
(***************************************************************************)
loopVars ==
  << gpio_status, range_status, gd_distance, distance, count, errors, sum,
     min_dist, max_dist, out, polls, accepts, samples, run, closed >>

\* (variant: only the high byte of the id is compared)
ModelIdMatchesHighByte(id) == id \div 256 = ExpectedModelId \div 256

\* the identification check
ModelIdMatches(id) == id = ExpectedModelId

InitIdentify ==
  /\ pc = "init_id"
  /\ \E hl \in ModelIdReads :
       LET id == readReg16Value(hl[1], hl[2]) IN
         /\ model_id' = id
         /\ log' = log \o readReg16Calls(IDENTIFICATION_MODEL_ID)
         /\ IF ModelIdMatches(id)
              THEN pc' = "init_reset" /\ initRet' = initRet
              ELSE pc' = "init_ret" /\ initRet' = -1
  /\ UNCHANGED << exitCode, setupRet, fd, i, fwReadySeen, loopVars, shimVars >>

\* (variant: the two reset values are written in the opposite order)
InitResetSwapped ==
  /\ pc = "init_reset"
  /\ log' = log \o writeReg8(SOFT_RESET, 1) \o writeReg8(SOFT_RESET, 0)
  /\ i' = 0
  /\ pc' = "init_fw"
  /\ UNCHANGED << exitCode, setupRet, fd, initRet, model_id, fwReadySeen,
                  loopVars, shimVars >>

InitReset ==
  /\ pc = "init_reset"
  /\ log' = log \o writeReg8(SOFT_RESET, 0) \o writeReg8(SOFT_RESET, 1)
  /\ i' = 0
  /\ pc' = "init_fw"
  /\ UNCHANGED << exitCode, setupRet, fd, initRet, model_id, fwReadySeen,
                  loopVars, shimVars >>

\* readReg8(fd, FIRMWARE_SYSTEM_STATUS) & 0x01
FirmwareReady(status) == status % 2 = 1

\* one iteration of for (i = 0; i < 100; i++)
InitAwaitFirmware ==
  /\ pc = "init_fw"
  /\ i < FwAttempts
  /\ \E r \in FwStatusReads :
       /\ log' = log \o readReg8Calls(FIRMWARE_SYSTEM_STATUS)
       /\ IF FirmwareReady(readReg8Value(r))
            THEN /\ fwReadySeen' = TRUE
                 /\ i' = i
                 /\ pc' = "init_fwcheck"
            ELSE /\ fwReadySeen' = fwReadySeen
                 /\ i' = i + 1
                 /\ pc' = IF i + 1 < FwAttempts THEN "init_fw" ELSE "init_fwcheck"
  /\ UNCHANGED << exitCode, setupRet, fd, initRet, model_id, loopVars,
                  shimVars >>

\* (variant: the timeout test is off by one, i >= 99)
InitFirmwareCheckOffByOne ==
  /\ pc = "init_fwcheck"
  /\ IF i >= FwAttempts - 1
       THEN pc' = "init_ret" /\ initRet' = -1
       ELSE pc' = "init_cfg" /\ initRet' = initRet
  /\ UNCHANGED << exitCode, setupRet, fd, model_id, i, fwReadySeen, log,
                  loopVars, shimVars >>

\* if (i >= 100) return -1
InitFirmwareCheck ==
  /\ pc = "init_fwcheck"
  /\ IF i >= FwAttempts
       THEN pc' = "init_ret" /\ initRet' = -1
       ELSE pc' = "init_cfg" /\ initRet' = initRet
  /\ UNCHANGED << exitCode, setupRet, fd, model_id, i, fwReadySeen, log,
                  loopVars, shimVars >>

\* the configuration writes, in the order of the source
ConfigWrites ==
  writeReg8(RANGE_CONFIG_VCSEL_PERIOD_A, 9)
    \o writeReg8(RANGE_CONFIG_VCSEL_PERIOD_B, 13)
    \o writeReg8(RANGE_CONFIG_VALID_PHASE_HIGH, 200)
    \o writeReg16(RANGE_CONFIG_TIMEOUT_MACROP_A, 214)
    \o writeReg16(RANGE_CONFIG_TIMEOUT_MACROP_B, 214)
    \o writeReg8(SYSTEM_INTERRUPT_CONFIG_GPIO, 1)
    \o writeReg8(SYSTEM_INTERRUPT_CLEAR, 1)

\* (variant: the interrupt configuration register is not written)
InitConfigureNoGpio ==
  /\ pc = "init_cfg"
  /\ log' = log \o writeReg8(RANGE_CONFIG_VCSEL_PERIOD_A, 9)
               \o writeReg8(RANGE_CONFIG_VCSEL_PERIOD_B, 13)
               \o writeReg8(RANGE_CONFIG_VALID_PHASE_HIGH, 200)
               \o writeReg16(RANGE_CONFIG_TIMEOUT_MACROP_A, 214)
               \o writeReg16(RANGE_CONFIG_TIMEOUT_MACROP_B, 214)
               \o writeReg8(SYSTEM_INTERRUPT_CLEAR, 1)
  /\ initRet' = 0
  /\ pc' = "init_ret"
  /\ UNCHANGED << exitCode, setupRet, fd, model_id, i, fwReadySeen, loopVars,
                  shimVars >>

InitConfigure ==
  /\ pc = "init_cfg"
  /\ log' = log \o ConfigWrites
  /\ initRet' = 0
  /\ pc' = "init_ret"
  /\ UNCHANGED << exitCode, setupRet, fd, model_id, i, fwReadySeen, loopVars,
                  shimVars >>

\* (variant: the result of initSensor is tested for -2)
MainInitCheckWrongCode ==
  /\ pc = "init_ret"
  /\ IF initRet = -2 THEN ExitWith(1) ELSE pc' = "start" /\ exitCode' = exitCode
  /\ i' = 0
  /\ UNCHANGED << setupRet, fd, initRet, model_id, fwReadySeen, log, loopVars,
                  shimVars >>

\* if (initSensor(fd) != 0) return 1; initSensor's counter goes out of scope
MainInitCheck ==
  /\ pc = "init_ret"
  /\ IF initRet # 0 THEN ExitWith(1) ELSE pc' = "start" /\ exitCode' = exitCode
  /\ i' = 0
  /\ UNCHANGED << setupRet, fd, initRet, model_id, fwReadySeen, log, loopVars,
                  shimVars >>

(***************************************************************************)
(* startRanging, stopRanging.                                              *)
(***************************************************************************)
\* (variant: the start command is written before the interrupt is cleared)
startRangingStartFirst ==
  writeReg8(SYSTEM_MODE_START, StartCommand) \o writeReg8(SYSTEM_INTERRUPT_CLEAR, 1)

startRanging ==
  writeReg8(SYSTEM_INTERRUPT_CLEAR, 1) \o writeReg8(SYSTEM_MODE_START, StartCommand)

stopRanging == writeReg8(SYSTEM_MODE_START, StopCommand)

StartRanging ==
  /\ pc = "start"
  /\ log' = log \o startRanging
  /\ pc' = "poll"
  /\ UNCHANGED << exitCode, setupRet, fd, initRet, model_id, i, fwReadySeen,
                  loopVars, shimVars >>

(***************************************************************************)
(* getDistance: one read cycle.                                            *)
(***************************************************************************)
startupVars == << exitCode, setupRet, fd, initRet, model_id, i, fwReadySeen >>

\* !(gpio_status & 0x01) is the not-ready test
DataReady(gpio) == gpio % 2 = 1

\* (variant: the upper boundary is inclusive)
getDistanceResultInclusive(gpio, status, dist) ==
  IF ~DataReady(gpio)
    THEN -1
    ELSE IF dist > 0 /\ dist <= DistanceLimit /\ (status \div 16) % 16 = 0
           THEN dist
           ELSE -1

\* the validity test and return value, given the three values read
getDistanceResult(gpio, status, dist) ==
  IF ~DataReady(gpio)
    THEN -1
    ELSE IF dist > 0 /\ dist < DistanceLimit /\ (status \div 16) % 16 = 0
           THEN dist
           ELSE -1

\* the bus calls of a cycle that found the data-ready bit unset / set
\* (variant: the interrupt is cleared also when the data is not ready)
NotReadyCallsWithClear ==
  readReg8Calls(GPIO_TIO_HV_STATUS) \o writeReg8(SYSTEM_INTERRUPT_CLEAR, 1)

NotReadyCalls == readReg8Calls(GPIO_TIO_HV_STATUS)

\* (variant: the interrupt is cleared before the result is read)
ReadyCallsClearFirst ==
  readReg8Calls(GPIO_TIO_HV_STATUS)
    \o writeReg8(SYSTEM_INTERRUPT_CLEAR, 1)
    \o readReg8Calls(RESULT_RANGE_STATUS)
    \o readReg16Calls(RESULT_DISTANCE)

ReadyCalls ==
  readReg8Calls(GPIO_TIO_HV_STATUS)
    \o readReg8Calls(RESULT_RANGE_STATUS)
    \o readReg16Calls(RESULT_DISTANCE)
    \o writeReg8(SYSTEM_INTERRUPT_CLEAR, 1)

\* the tally b with one more occurrence of v
Tally(b, v) ==
  [w \in DOMAIN b \cup { v } |->
     IF w = v THEN (IF v \in DOMAIN b THEN b[v] + 1 ELSE 1) ELSE b[w]]

\* distance = getDistance(fd); the environment supplies the raw read results.
\* range_status and distance are not assigned when the data is not ready and
\* are not read either; they are shown as 0 then.
GetDistance(gpioReads, statusReads, distanceReads) ==
  /\ pc = "poll"
  /\ \E g \in gpioReads, s \in statusReads, hl \in distanceReads :
       LET gpio == readReg8Value(g)
           status == IF DataReady(gpio) THEN readReg8Value(s) ELSE 0
           dist == IF DataReady(gpio) THEN readReg16Value(hl[1], hl[2]) ELSE 0
           result == getDistanceResult(gpio, status, dist)
       IN /\ gpio_status' = gpio
          /\ range_status' = status
          /\ gd_distance' = dist
          /\ log' = IF DataReady(gpio) THEN ReadyCalls ELSE NotReadyCalls
          /\ distance' = result
          /\ accepts' = IF result # -1 THEN accepts + 1 ELSE accepts
          /\ samples' = IF result # -1 THEN Tally(samples, result) ELSE samples
  /\ pc' = "account"
  /\ UNCHANGED << startupVars, count, errors, sum, min_dist, max_dist, out,
                  polls, run, closed, shimVars >>

(***************************************************************************)
(* The body of main's loop after the getDistance call.                     *)
(***************************************************************************)
\* (variant: the very-close threshold is inclusive)
printDistanceInclusive(d, c) ==
  [kind |-> "sample", n |-> c, mm |-> d,
   bars |-> IF d \div 100 > MaxBars THEN MaxBars ELSE d \div 100,
   tag |-> IF d <= 100 THEN "very close" ELSE IF d < 300 THEN "close" ELSE "none"]

\* the line printDistance(distance, count) prints
printDistance(d, c) ==
  [kind |-> "sample", n |-> c, mm |-> d,
   bars |-> IF d \div 100 > MaxBars THEN MaxBars ELSE d \div 100,
   tag |-> IF d < 100 THEN "very close" ELSE IF d < 300 THEN "close" ELSE "none"]

\* the waiting-for-data line
WarningLine(e) == [kind |-> "warning", n |-> e, mm |-> 0, bars |-> 0, tag |-> "none"]

\* (variant: the test is made before errors++)
WarningDueBeforeIncrement(e) == (e - 1) % WarnEvery = 0

\* if (errors % 20 == 0), evaluated after errors++
WarningDue(e) == e % WarnEvery = 0

\* (variant: the loop ends after two iterations)
WhileCondBounded == polls < 1

\* the loop condition: while (1)
WhileCond == TRUE

\* a + b in a 32-bit int, for the additions of the loop (a >= 0, b small);
\* past INT_MAX the value wraps, which is what the build named in the source
\* (gcc without -ftrapv) produces
Int32Max == 2147483647
Add32(a, b) ==
  IF b > 0 /\ a > Int32Max - b
    THEN (((a - Int32Max) + (b - 1)) - Int32Max) - 1
    ELSE a + b

\* (variant: if (distance), which takes -1 for a sample)
SampleAcceptedNonZero(d) == d # 0

\* if (distance > 0)
SampleAccepted(d) == d > 0

Account ==
  /\ pc = "account"
  /\ IF SampleAccepted(distance)
       THEN /\ count' = Add32(count, 1)
            /\ sum' = Add32(sum, distance)
            /\ min_dist' = IF distance < min_dist THEN distance ELSE min_dist
            /\ max_dist' = IF distance > max_dist THEN distance ELSE max_dist
            /\ out' = printDistance(distance, Add32(count, 1))
            /\ errors' = errors
       ELSE /\ errors' = Add32(errors, 1)
            /\ out' = IF WarningDue(Add32(errors, 1))
                        THEN WarningLine(Add32(errors, 1)) ELSE NoLine
            /\ UNCHANGED << count, sum, min_dist, max_dist >>
  /\ polls' = polls + 1
  /\ run' = IF distance # -1 THEN 0 ELSE run + 1
  /\ IF WhileCond
       THEN /\ pc' = "poll"
            /\ UNCHANGED << exitCode, log, closed >>
       ELSE /\ log' = log \o stopRanging
            /\ closed' = TRUE
            /\ ExitWith(0)
  /\ UNCHANGED << setupRet, fd, initRet, model_id, i, fwReadySeen, gpio_status,
                  range_status, gd_distance, distance, accepts, samples, shimVars >>

(***************************************************************************)
(* The shim's 16-bit write and read against a mock register file: the      *)
(* address phase sets the register pointer, a written byte is stored at    *)
(* the pointer, a read returns the byte at the pointer, and both advance   *)
(* the pointer.                                                            *)
(***************************************************************************)
MockCell(m, p) == IF p \in DOMAIN m THEN m[p] ELSE MockFill

\* the mock after one bus call, and the byte a Read returns
MockStep(st, call) ==
  IF call.op = "WriteReg8"
    THEN [mem |-> st.mem, ptr |-> call.a * 256 + call.d, ret |-> st.ret]
    ELSE IF call.op = "Write"
      THEN [mem |-> IF st.ptr \in DOMAIN st.mem
                      THEN [st.mem EXCEPT ![st.ptr] = call.d] ELSE st.mem,
            ptr |-> (st.ptr + 1) % 65536,
            ret |-> st.ret]
      ELSE [mem |-> st.mem,
            ptr |-> (st.ptr + 1) % 65536,
            ret |-> Append(st.ret, MockCell(st.mem, st.ptr))]

RECURSIVE MockRun(_, _)
MockRun(st, calls) ==
  IF calls = << >> THEN st ELSE MockRun(MockStep(st, Head(calls)), Tail(calls))

ShimWrite16 ==
  /\ shim_pc = "idle"
  /\ LET calls == writeReg16(shim_reg, shim_val)
         st == MockRun([mem |-> mem, ptr |-> ptr, ret |-> << >>], calls)
     IN /\ log' = log \o calls
        /\ mem' = st.mem
        /\ ptr' = st.ptr
  /\ shim_pc' = "written"
  /\ UNCHANGED << mainVars, shim_reg, shim_val, shim_out >>

ShimRead16 ==
  /\ shim_pc = "written"
  /\ LET calls == readReg16Calls(shim_reg)
         st == MockRun([mem |-> mem, ptr |-> ptr, ret |-> << >>], calls)
     IN /\ log' = log \o calls
        /\ mem' = st.mem
        /\ ptr' = st.ptr
        /\ shim_out' = readReg16Value(st.ret[1], st.ret[2])
  /\ shim_pc' = "read"
  /\ UNCHANGED << mainVars, shim_reg, shim_val >>

(***************************************************************************)
(* Specifications.                                                         *)
(***************************************************************************)
Startup ==
  \/ MainSetup
  \/ MainOpen
  \/ InitIdentify
  \/ InitReset
  \/ InitAwaitFirmware
  \/ InitFirmwareCheck
  \/ InitConfigure
  \/ MainInitCheck
  \/ StartRanging

\* a poll, explored while the counters are below the caps
Poll == count < MaxCount /\ errors < MaxErrors
          /\ GetDistance(GpioReads, StatusReads, DistanceReads)

LongPoll == count < LongCount /\ errors < LongErrors
              /\ GetDistance(LongGpioReads, LongStatusReads, LongDistanceReads)

Next ==
  \/ MainSetup
  \/ MainOpen
  \/ InitIdentify
  \/ InitReset
  \/ InitAwaitFirmware
  \/ InitFirmwareCheck
  \/ InitConfigure
  \/ MainInitCheck
  \/ StartRanging
  \/ Poll
  \/ Account

Spec == Init /\ [][Next]_vars

\* many polls over few inputs
NextLong ==
  \/ MainSetup
  \/ MainOpen
  \/ InitIdentify
  \/ InitReset
  \/ InitAwaitFirmware
  \/ InitFirmwareCheck
  \/ InitConfigure
  \/ MainInitCheck
  \/ StartRanging
  \/ LongPoll
  \/ Account

SpecLong == Init /\ [][NextLong]_vars

\* few polls over the distances around the thresholds of printDistance
PrintPoll == count < PrintCount /\ errors < PrintErrors
               /\ GetDistance(PrintGpioReads, PrintStatusReads, PrintDistanceReads)

NextPrint ==
  \/ MainSetup
  \/ MainOpen
  \/ InitIdentify
  \/ InitReset
  \/ InitAwaitFirmware
  \/ InitFirmwareCheck
  \/ InitConfigure
  \/ MainInitCheck
  \/ StartRanging
  \/ PrintPoll
  \/ Account

SpecPrint == Init /\ [][NextPrint]_vars

\* a long run of accepted samples of the largest distance
SumPoll == count < SumCount /\ GetDistance(SumGpioReads, SumStatusReads, SumDistanceReads)

NextSum ==
  \/ MainSetup
  \/ MainOpen
  \/ InitIdentify
  \/ InitReset
  \/ InitAwaitFirmware
  \/ InitFirmwareCheck
  \/ InitConfigure
  \/ MainInitCheck
  \/ StartRanging
  \/ SumPoll
  \/ Account

SpecSum == Init /\ [][NextSum]_vars

\* startup only; the program takes a step whenever it can
SpecStartup == Init /\ [][Startup]_vars /\ WF_vars(Startup)

\* the shim applied to every register and value of ShimRegs, ShimVals
InitShim ==
  /\ InitMain
  /\ shim_pc = "idle"
  /\ shim_reg \in ShimRegs
  /\ shim_val \in ShimVals
  /\ shim_out = 0
  /\ mem = [a \in MockAddrs |-> MockFill]
  /\ ptr = 0

NextShim == ShimWrite16 \/ ShimRead16

SpecShim == InitShim /\ [][NextShim]_vars

(***************************************************************************)
(* Properties.                                                             *)
(***************************************************************************)
\* a getDistance call has returned and found the data-ready bit set
CycleReady == pc = "account" /\ gpio_status % 2 = 1

\* number of reads of the firmware status register in the log
FwReads == Cardinality(ReadsOf(log, FIRMWARE_SYSTEM_STATUS))

\* the log still holds the bus calls of startup
StartupLog ==
  pc \in { "init_id", "init_reset", "init_fw", "init_fwcheck", "init_cfg",
           "init_ret", "start" }
    \/ (pc = "poll" /\ polls = 0)
    \/ (pc = "exit" /\ ~closed)

\* C1: a read cycle that found the data-ready bit set returns the distance
\* read iff 0 < distance < 8000 and bits 4-7 of the status byte are zero, and
\* -1 otherwise; a returned value is -1 or in 1..7999.
C1_SampleValidation ==
  CycleReady =>
    /\ distance = IF 0 < gd_distance /\ gd_distance < 8000
                      /\ range_status \div 16 = 0
                    THEN gd_distance ELSE -1
    /\ distance \in ({ -1 } \cup (1..7999))
    /\ (gd_distance = 0 => distance = -1)
    /\ (gd_distance = 7999 /\ range_status \div 16 = 0 => distance = 7999)
    /\ (gd_distance = 7999 /\ range_status \div 16 = 1 => distance = -1)
    /\ (gd_distance = 8000 => distance = -1)

C1_Witness ==
  CycleReady /\ gd_distance = 7999 /\ range_status = 15 /\ distance = 7999

\* C2: in a read cycle that found the data-ready bit set the interrupt-clear
\* register is written exactly once, with 0x01, after the range-status read
\* and the distance read, whether the reading is accepted or discarded.
C2_ClearOncePerCycle ==
  CycleReady =>
    /\ Cardinality(WritesTo(log, SYSTEM_INTERRUPT_CLEAR)) = 1
    /\ Cardinality(Accesses(log, SYSTEM_INTERRUPT_CLEAR)) = 1
    /\ WritesTo(log, SYSTEM_INTERRUPT_CLEAR) = Writes8(log, SYSTEM_INTERRUPT_CLEAR, 1)
    /\ ReadsOf(log, RESULT_RANGE_STATUS) # {}
    /\ ReadsOf(log, RESULT_DISTANCE) # {}
    /\ \A w \in WritesTo(log, SYSTEM_INTERRUPT_CLEAR) :
         /\ \A r \in ReadsOf(log, RESULT_RANGE_STATUS) : r + 1 < w
         /\ \A r \in ReadsOf(log, RESULT_DISTANCE) :
              r + 2 < w /\ log[r + 2].op = "Read"
         /\ w + 1 = Len(log)

C2_Witness ==
  /\ CycleReady
  /\ distance = -1
  /\ gd_distance = 9000
  /\ Writes8(log, SYSTEM_INTERRUPT_CLEAR, 1) # {}

\* the identification register has been read
IdRead == StartupLog /\ ReadsOf(log, IDENTIFICATION_MODEL_ID) # {}

\* the steps taken at and after the identification read
IdentifyStep ==
  /\ (pc = "init_id" /\ model_id' = 60108 => pc' = "init_reset")
  /\ (pc = "init_id" /\ model_id' # 60108 => pc' = "init_ret")
  /\ (pc = "init_ret" /\ model_id # 60108 =>
        pc' = "exit" /\ exitCode' = 1 /\ log' = log)

\* C3: when the model id read is 0xEACC initSensor goes on to the reset step;
\* for any other value it returns -1, the identification read stays the only
\* bus transaction, and main returns 1.
C3_IdentificationCheck ==
  /\ [](IdRead /\ model_id # 60108 =>
          /\ initRet = -1
          /\ log = << [op |-> "WriteReg8", a |-> 1, d |-> 15],
                      [op |-> "Read", a |-> -1, d |-> -1],
                      [op |-> "Read", a |-> -1, d |-> -1] >>
          /\ pc \in { "init_ret", "exit" }
          /\ (pc = "exit" => exitCode = 1))
  /\ [][IdentifyStep]_vars

C3_Witness ==
  /\ pc = "exit"
  /\ exitCode = 1
  /\ model_id = 52458
  /\ Len(log) = 3
  /\ IdRead

\* no configuration register and no later register has been touched
NothingConfigured ==
  /\ \A r \in ConfigRegs : Accesses(log, r) = {}
  /\ Accesses(log, SYSTEM_INTERRUPT_CLEAR) = {}
  /\ Accesses(log, SYSTEM_MODE_START) = {}

\* C4: the firmware poll reads the status register until bit 0 is set: when
\* it is first set on the k-th read (k in 1..100) initSensor succeeds after
\* exactly k reads; when it is never set initSensor fails after exactly 100
\* reads with no configuration register written; there are never more than
\* 100 reads and initSensor returns.
C4_FirmwarePoll ==
  /\ [](StartupLog =>
          /\ FwReads <= 100
          /\ (pc = "init_fw" => ~fwReadySeen /\ FwReads = i /\ i < 100)
          /\ (pc \in { "init_fwcheck", "init_cfg", "init_ret" } /\ fwReadySeen =>
                FwReads = i + 1 /\ FwReads \in 1..100)
          /\ (pc = "init_ret" /\ fwReadySeen => initRet = 0)
          /\ (pc \in { "init_fwcheck", "init_ret" } /\ ~fwReadySeen
                /\ model_id = 60108 =>
                FwReads = 100 /\ NothingConfigured)
          /\ (pc \in { "init_ret", "exit" } /\ ~fwReadySeen /\ model_id = 60108 =>
                initRet = -1 /\ FwReads = 100 /\ NothingConfigured)
          /\ (initRet = 0 /\ pc \in { "init_ret", "start", "poll" } =>
                fwReadySeen /\ FwReads \in 1..100))
  /\ (pc = "init_id" ~> pc = "init_ret")

C4_Witness ==
  pc = "init_ret" /\ initRet = 0 /\ fwReadySeen /\ FwReads = 100 /\ i = 99

\* the state of the sequencer: 0 Uninitialized, 1 Identified, 2 Reset,
\* 3 Configured, 4 Ranging
SeqState ==
  IF pc \in { "poll", "account" } THEN 4
  ELSE IF \A r \in ConfigRegs : WritesTo(log, r) # {} THEN 3
  ELSE IF Writes8(log, SOFT_RESET, 1) # {} THEN 2
  ELSE IF ReadsOf(log, IDENTIFICATION_MODEL_ID) # {} /\ model_id = 60108 THEN 1
  ELSE 0

\* the registers of the startup sequence
StartupRegs ==
  { IDENTIFICATION_MODEL_ID, SOFT_RESET, FIRMWARE_SYSTEM_STATUS } \cup ConfigRegs

\* a step taken while ranging
RangingStep ==
  pc \in { "poll", "account" } =>
    /\ pc' \in { "poll", "account" }
    /\ (log' # log => \A r \in StartupRegs : Accesses(log', r) = {})

\* C5: the sequencer state never decreases and advances one state at a time;
\* the start command is written only after the id matched, 0x00 and 0x01 were
\* written to the soft-reset register, the firmware-ready bit was seen and
\* every configuration register was written; once ranging, the program stays
\* ranging and addresses no identification, soft-reset, firmware-status or
\* configuration register.
C5_SequencerOrder ==
  /\ [][SeqState' >= SeqState /\ SeqState' <= SeqState + 1]_vars
  /\ [](\A p \in WritesTo(log, SYSTEM_MODE_START) :
          /\ log[p + 1].d = 64
          /\ model_id = 60108
          /\ \E q \in ReadsOf(log, IDENTIFICATION_MODEL_ID) : q < p
          /\ \E q0 \in Writes8(log, SOFT_RESET, 0) :
               \E q1 \in Writes8(log, SOFT_RESET, 1) : q0 < q1 /\ q1 < p
          /\ fwReadySeen
          /\ \E q \in ReadsOf(log, FIRMWARE_SYSTEM_STATUS) : q < p
          /\ \A r \in ConfigRegs : \E q \in WritesTo(log, r) : q < p)
  /\ [](pc = "account" => \A r \in StartupRegs : Accesses(log, r) = {})
  /\ [][RangingStep]_vars

C5_Witness ==
  /\ pc = "poll"
  /\ polls = 0
  /\ Writes8(log, SYSTEM_MODE_START, 64) # {}
  /\ FwReads = 3

\* C6: writeReg16 transmits the address bytes (high, low) and then the data
\* bytes (v >> 8) & 0xFF and v & 0xFF, and readReg16 of the same register of
\* a mock register file then returns v.
C6_BigEndianRoundTrip ==
  /\ (shim_pc \in { "written", "read" } =>
        /\ Len(log) >= 3
        /\ log[1] = [op |-> "WriteReg8", a |-> shim_reg \div 256, d |-> shim_reg % 256]
        /\ log[2] = [op |-> "Write", a |-> -1, d |-> shim_val \div 256]
        /\ log[3] = [op |-> "Write", a |-> -1, d |-> shim_val % 256])
  /\ (shim_pc = "written" => Len(log) = 3)
  /\ (shim_pc = "read" => shim_out = shim_val)

C6_Witness ==
  /\ shim_pc = "read"
  /\ shim_reg = RANGE_CONFIG_TIMEOUT_MACROP_A
  /\ shim_val = 54784
  /\ shim_out = 54784

\* C7: after n completed polls count is the number of polls in which
\* getDistance returned a sample, errors the number of the other polls and
\* count + errors = n; the counter printed with a sample is the number of
\* samples accepted so far, so it starts at 1 and grows by 1 per sample.
C7_Counters ==
  /\ (pc = "poll" =>
        /\ count = accepts
        /\ errors = polls - accepts
        /\ count + errors = polls)
  /\ (pc = "poll" /\ polls > 0 /\ distance # -1 =>
        out.kind = "sample" /\ out.n = accepts /\ out.n >= 1 /\ out.mm = distance)
  /\ (pc = "poll" /\ polls > 0 /\ distance = -1 => out.kind # "sample")

C7_Witness ==
  /\ pc = "poll"
  /\ polls = 5
  /\ count = 4
  /\ errors = 1
  /\ sum = 1200
  /\ min_dist = 50
  /\ max_dist = 500
  /\ out.kind = "sample" /\ out.n = 4 /\ out.mm = 400

\* main returns after a failed initSensor and not after startup
ExitStep ==
  /\ (pc = "init_ret" /\ initRet # 0 => pc' = "exit" /\ exitCode' = 1)
  /\ (pc \in { "start", "poll", "account" } =>
        pc' \in { "poll", "account" } /\ exitCode' = -1)

\* C8: main returns only with code 1 and only after wiringPiSetup,
\* wiringPiI2CSetup or initSensor failed, each of these failures ends in that
\* return, and once the poll loop is entered main never returns.
C8_ExitCodes ==
  /\ [](/\ (pc = "exit" =>
             exitCode = 1 /\ (setupRet = -1 \/ fd = -1 \/ initRet # 0))
        /\ (pc # "exit" => exitCode = -1)
        /\ (setupRet = -1 \/ fd = -1 => pc = "exit")
        /\ (initRet # 0 => pc \in { "init_ret", "exit" }))
  /\ [][ExitStep]_vars

C8_Witness == pc = "exit" /\ exitCode = 1 /\ fd = -1 /\ log = << >>

\* C9: the stop value 0x00 is never written to the mode-start register and
\* the device handle is never closed.
C9_StopUnreachable ==
  /\ ~closed
  /\ Writes8(log, SYSTEM_MODE_START, 0) = {}
  /\ (pc = "exit" => exitCode # 0)

C9_Witness == pc = "poll" /\ polls = 3 /\ ~closed /\ exitCode = -1

\* C10 as stated: a warning is printed at a poll iff the poll is invalid and
\* the run of consecutive invalid polls has reached a multiple of 20.
C10_WarningEveryTwentyConsecutive ==
  pc = "poll" /\ polls > 0 =>
    (out.kind = "warning" <=> (distance = -1 /\ run % 20 = 0))

\* C10 amended: a warning is printed at a poll iff the poll is invalid and
\* the number of invalid polls since the program started has reached a
\* multiple of 20; accepted samples in between do not restart the count.
C10_WarningEveryTwentyTotal ==
  pc = "poll" /\ polls > 0 =>
    /\ (out.kind = "warning" <=> (distance = -1 /\ (polls - accepts) % 20 = 0))
    /\ (out.kind = "warning" => out.n = polls - accepts)

C10_Witness ==
  /\ pc = "poll"
  /\ out.kind = "warning"
  /\ out.n = 20
  /\ run = 10
  /\ count = 1

\* C11: the line printed for an accepted distance d carries
\* min(floor(d / 100), 40) bars, the very-close tag iff d < 100, the close tag
\* iff 100 <= d < 300 and no tag otherwise.
C11_BarsAndTags ==
  pc = "poll" /\ polls > 0 /\ distance # -1 =>
    /\ out.kind = "sample"
    /\ out.mm = distance
    /\ out.bars = IF distance \div 100 < 40 THEN distance \div 100 ELSE 40
    /\ (out.tag = "very close" <=> distance < 100)
    /\ (out.tag = "close" <=> (100 <= distance /\ distance < 300))
    /\ (out.tag = "none" <=> distance >= 300)
    /\ (distance = 50 => out.tag = "very close")
    /\ (distance = 250 => out.tag = "close")
    /\ (distance \in { 400, 500 } => out.tag = "none")

C11_Witness ==
  /\ pc = "poll"
  /\ distance = 100
  /\ out.kind = "sample"
  /\ out.mm = 100
  /\ out.bars = 1
  /\ out.tag = "close"

\* C12: a cycle that reads the GPIO/status register with bit 0 unset returns
\* -1 and issues no other bus call: no range-status read, no distance read
\* and no interrupt-clear write.
C12_NotReadyNoFurtherCalls ==
  pc = "account" /\ gpio_status % 2 = 0 =>
    /\ distance = -1
    /\ log = << [op |-> "WriteReg8", a |-> 0, d |-> 49],
                [op |-> "Read", a |-> -1, d |-> -1] >>
    /\ Accesses(log, RESULT_RANGE_STATUS) = {}
    /\ Accesses(log, RESULT_DISTANCE) = {}
    /\ Accesses(log, SYSTEM_INTERRUPT_CLEAR) = {}

C12_Witness ==
  /\ pc = "account"
  /\ gpio_status = 2
  /\ distance = -1
  /\ Len(log) = 2
  /\ polls = 1

\* the start command is in the log, directly preceded by the interrupt clear
StartedAfterClear ==
  /\ Cardinality(WritesTo(log, SYSTEM_MODE_START)) = 1
  /\ \A p \in WritesTo(log, SYSTEM_MODE_START) :
       /\ log[p + 1].d = 64
       /\ p - 2 \in Writes8(log, SYSTEM_INTERRUPT_CLEAR, 1)
       /\ p + 1 = Len(log)

\* the step that issues the first read of the GPIO/status register
FirstGpioReadStep ==
  ReadsOf(log, GPIO_TIO_HV_STATUS) = {} /\ ReadsOf(log', GPIO_TIO_HV_STATUS) # {} =>
    pc = "poll" /\ polls = 0 /\ StartedAfterClear

\* C13: startRanging writes 0x01 to the interrupt-clear register and then
\* 0x40 to the mode-start register, and the first read of the GPIO/status
\* register comes after both writes.
C13_StartRangingOrder ==
  /\ [](pc = "poll" /\ polls = 0 =>
          StartedAfterClear /\ ReadsOf(log, GPIO_TIO_HV_STATUS) = {})
  /\ [](StartupLog /\ pc # "poll" =>
          WritesTo(log, SYSTEM_MODE_START) = {}
            /\ ReadsOf(log, GPIO_TIO_HV_STATUS) = {})
  /\ [][FirstGpioReadStep]_vars

C13_Witness ==
  /\ pc = "account"
  /\ polls = 0
  /\ ReadsOf(log, GPIO_TIO_HV_STATUS) # {}
  /\ gpio_status = 0

\* C14: the soft-reset register is written exactly twice, 0x00 and then
\* 0x01, after the id matched and before the first firmware-status read, and
\* is addressed nowhere else.
C14_SoftResetWrites ==
  /\ (StartupLog =>
        /\ Accesses(log, SOFT_RESET) = WritesTo(log, SOFT_RESET)
        /\ Cardinality(WritesTo(log, SOFT_RESET)) \in { 0, 2 }
        /\ (pc \in { "init_fw", "init_fwcheck", "init_cfg", "start", "poll" } =>
              Cardinality(WritesTo(log, SOFT_RESET)) = 2)
        /\ (pc \in { "setup", "open", "init_id", "init_reset" } =>
              WritesTo(log, SOFT_RESET) = {})
        /\ (WritesTo(log, SOFT_RESET) # {} =>
              /\ model_id = 60108
              /\ \E q \in Writes8(log, SOFT_RESET, 0) :
                   /\ WritesTo(log, SOFT_RESET) = { q, q + 2 }
                   /\ q + 2 \in Writes8(log, SOFT_RESET, 1)
                   /\ \E r \in ReadsOf(log, IDENTIFICATION_MODEL_ID) : r < q
                   /\ \A f \in ReadsOf(log, FIRMWARE_SYSTEM_STATUS) : q + 2 < f))
  /\ (~StartupLog => Accesses(log, SOFT_RESET) = {})

C14_Witness ==
  /\ pc = "init_fw"
  /\ i = 1
  /\ Writes8(log, SOFT_RESET, 0) = { 4 }
  /\ Writes8(log, SOFT_RESET, 1) = { 6 }
  /\ ReadsOf(log, FIRMWARE_SYSTEM_STATUS) = { 8 }

\* the smallest and the largest sample value returned so far
SmallestSample == CHOOSE v \in DOMAIN samples : \A w \in DOMAIN samples : v <= w
LargestSample == CHOOSE v \in DOMAIN samples : \A w \in DOMAIN samples : v >= w

\* the exact sum of the tally b over the values of S, as a pair
\* << millions, rest >>, so that it can be compared beyond the range of int
RECURSIVE TallySum(_, _)
TallySum(b, S) ==
  IF S = {} THEN << 0, 0 >>
  ELSE LET v == CHOOSE w \in S : TRUE
           x == v * (b[v] \div 1000)
           low == ((x % 1000) * 1000) + (v * (b[v] % 1000))
           rest == TallySum(b, S \ { v })
           lo == rest[2] + (low % 1000000)
       IN << rest[1] + (x \div 1000) + (low \div 1000000) + (lo \div 1000000),
             lo % 1000000 >>

\* sum is the sum of all samples returned so far
SumIsTallySum ==
  /\ sum >= 0
  /\ << sum \div 1000000, sum % 1000000 >> = TallySum(samples, DOMAIN samples)

\* C15: once a sample was accepted, after every completed poll
\* 1 <= min_dist <= max_dist <= 7999, min_dist and max_dist are the smallest
\* and the largest accepted distance and sum is the sum of all accepted
\* distances.
C15_RunningStatistics ==
  pc = "poll" /\ accepts >= 1 =>
    /\ 1 <= min_dist
    /\ min_dist <= max_dist
    /\ max_dist <= 7999
    /\ min_dist = SmallestSample
    /\ max_dist = LargestSample
    /\ SumIsTallySum

====
